---- MODULE Spec2Model ----
(***************************************************************************)
(* Model of main.py: the gap-closing loop that joins lines without a       *)
(* follow-up line to lines without a lead line by artificial lines.        *)
(*                                                                         *)
(* A line is a sequence of points <<x, y>> with integer coordinates; the   *)
(* data frame df maps a line id to its coordinates.  The two pools         *)
(* lines_no_end and lines_no_begin are kept as sequences of ids in index   *)
(* order (read_shp sorts the index, filtering and drop keep the order).    *)
(* Bearings are kept in thousandths of a degree.                           *)
(***************************************************************************)
EXTENDS Integers, Sequences, FiniteSets, TLC

\* ------------------------------------------------------------- bounds
\* Largest number of input lines of a run of main().
NumLines == 8
\* Largest number of input lines that are not plain straight segments.
MaxVariants == 1
\* Largest number of input lines when calculate_neighbors is checked alone.
NeighborLines == 5

\* -------------------------------------------------- program constants
\* NearestNeighbors(n_neighbors=3)
N_NEIGHBORS == 3
\* "if abs(previous_result_length - len(result_lines)) < 5: break"
MIN_NEW_LINES == 5
\* np.inf, the start value of min_degree; larger than any bearing difference
INF == 1000000000

\* The angle thresholds (--d, whole degrees) the runs are started with.
Thresholds == {5, 50, 200}

VARIABLES
    df,                     \* id -> coordinates of the line (read_shp)
    angle_threshold,        \* args.d, in degrees
    lines_no_end,           \* ids of the lines without a follow-up line
    lines_no_begin,         \* ids of the lines without a lead line
    first,                  \* column lines_no_begin['first']: id -> nearest id
    indices,                \* result of a call of calculate_neighbors alone
    artificial_lines,       \* candidates of this round, sorted by (e_idx, b_idx)
    filtered_lines,         \* accepted connectors of this round
    result_lines,           \* accepted connectors of all rounds
    previous_result_length,
    rounds,                 \* number of the current pass of "while 1"
    pc                      \* position in main()

vars == <<df, angle_threshold, lines_no_end, lines_no_begin, first, indices,
          artificial_lines, filtered_lines, result_lines,
          previous_result_length, rounds, pc>>

\* ------------------------------------------------------------ helpers
Abs(x) == IF x < 0 THEN 0 - x ELSE x

Range(s) == {s[i] : i \in DOMAIN s}

RECURSIVE GCD(_, _)
GCD(a, b) == IF b = 0 THEN a ELSE GCD(b, a % b)

RECURSIVE SetToSortedSeq(_)
SetToSortedSeq(S) ==
    IF S = {} THEN <<>>
    ELSE LET m == CHOOSE x \in S : \A y \in S : x <= y
         IN  <<m>> \o SetToSortedSeq(S \ {m})

\* atan(q / p) in thousandths of a degree, rounded, for coprime 0 < q < p <= 24
\* with q <= 4: the differences of the coordinates on the grid of the input.
\* None of these angles lies within 0.005 degrees of a whole degree, so a
\* strict comparison of its difference with a bearing that is a multiple of
\* 45 degrees against a whole-degree threshold agrees with the float result.
ArcTanTable ==
    { <<2, 1, 26565>>, <<3, 1, 18435>>, <<3, 2, 33690>>, <<4, 1, 14036>>, <<4, 3, 36870>>,
      <<5, 1, 11310>>, <<5, 2, 21801>>, <<5, 3, 30964>>, <<5, 4, 38660>>, <<6, 1, 9462>>,
      <<7, 1, 8130>>, <<7, 2, 15945>>, <<7, 3, 23199>>, <<7, 4, 29745>>, <<8, 1, 7125>>,
      <<8, 3, 20556>>, <<9, 1, 6340>>, <<9, 2, 12529>>, <<9, 4, 23962>>, <<10, 1, 5711>>,
      <<10, 3, 16699>>, <<11, 1, 5194>>, <<11, 2, 10305>>, <<11, 3, 15255>>, <<11, 4, 19983>>,
      <<12, 1, 4764>>, <<13, 1, 4399>>, <<13, 2, 8746>>, <<13, 3, 12995>>, <<13, 4, 17103>>,
      <<14, 1, 4086>>, <<14, 3, 12095>>, <<15, 1, 3814>>, <<15, 2, 7595>>, <<15, 4, 14931>>,
      <<16, 1, 3576>>, <<16, 3, 10620>>, <<17, 1, 3366>>, <<17, 2, 6710>>, <<17, 3, 10008>>,
      <<17, 4, 13241>>, <<18, 1, 3180>>, <<19, 1, 3013>>, <<19, 2, 6009>>, <<19, 3, 8973>>,
      <<19, 4, 11889>>, <<20, 1, 2862>>, <<20, 3, 8531>>, <<21, 1, 2726>>, <<21, 2, 5440>>,
      <<21, 4, 10784>>, <<22, 1, 2603>>, <<22, 3, 7765>>, <<23, 1, 2490>>, <<23, 2, 4970>>,
      <<23, 3, 7431>>, <<23, 4, 9866>>, <<24, 1, 2386>> }

\* atan(q / p) for 0 < q < p
ArcTan(q, p) ==
    LET g == GCD(p, q)
    IN  (CHOOSE t \in ArcTanTable : t[1] = p \div g /\ t[2] = q \div g)[3]

\* degrees(atan2(change_y, change_x)); atan2(0, 0) is 0 and atan2(0, -1) is 180
Atan2Degrees(change_y, change_x) ==
    LET ax == Abs(change_x)
        ay == Abs(change_y)
        acute == IF ay = 0 THEN 0
                 ELSE IF ax = 0 THEN 90000
                 ELSE IF ax = ay THEN 45000
                 ELSE IF ay < ax THEN ArcTan(ay, ax)
                 ELSE 90000 - ArcTan(ax, ay)
    IN  IF ax = 0 /\ ay = 0 THEN 0
        ELSE IF change_x >= 0
             THEN (IF change_y >= 0 THEN acute ELSE 0 - acute)
             ELSE (IF change_y >= 0 THEN 180000 - acute ELSE acute - 180000)

AngleBtw2Points(point_a, point_b) ==
    Atan2Degrees(point_b[2] - point_a[2], point_b[1] - point_a[1])

\* geometry.boundary: the first and the last point of a line, and no point at
\* all of a closed line (first point = last point)
boundary(coords) ==
    IF Len(coords) < 2 \/ coords[1] = coords[Len(coords)]
    THEN <<>>
    ELSE <<coords[1], coords[Len(coords)]>>

\* points[0] of the boundary
get_begin(points) == points[1]

\* points[1] of the boundary: its second point (IndexError when there is none)
get_end(points) == points[2]

\* the columns b_point and e_point that get_lines adds to df
b_point(id) == get_begin(boundary(df[id]))

e_point(id) == get_end(boundary(df[id]))

\* ------------------------------------------------------- get_lines
\* get_begin / get_end raise IndexError on a boundary without two points
GetLinesRaises(d) == \E i \in DOMAIN d : Len(boundary(d[i])) < 2

get_lines(d) ==
    LET b_points == {get_begin(boundary(d[i])) : i \in DOMAIN d}
        e_points == {get_end(boundary(d[i])) : i \in DOMAIN d}
    IN  <<SetToSortedSeq({i \in DOMAIN d : get_end(boundary(d[i])) \notin b_points}),
          SetToSortedSeq({i \in DOMAIN d : get_begin(boundary(d[i])) \notin e_points})>>

\* ------------------------------------------------ calculate_neighbors
\* squared Euclidean distance (exact on integer coordinates)
Dist2(p, q) == (p[1] - q[1]) * (p[1] - q[1]) + (p[2] - q[2]) * (p[2] - q[2])

\* fit() refuses an empty sample array, kneighbors() an empty query array and
\* n_neighbors > n_samples: each raises ValueError
NeighborsRaises(no_end, no_begin) ==
    \/ Len(no_end) = 0
    \/ Len(no_begin) = 0
    \/ Len(no_end) < N_NEIGHBORS

\* The rows kneighbors can return for begin point q: N_NEIGHBORS distinct
\* positions (0-based) of no_end, nearest first; which of several equally
\* distant end points comes first is left to the search structure.
NeighborRows(no_end, q) ==
    LET pos == 0 .. (Len(no_end) - 1)
        d(p) == Dist2(e_point(no_end[p + 1]), q)
    IN  { row \in [1 .. N_NEIGHBORS -> pos] :
            /\ \A i, j \in 1 .. N_NEIGHBORS : i < j =>
                    row[i] # row[j] /\ d(row[i]) <= d(row[j])
            /\ \A p \in pos : (\A i \in 1 .. N_NEIGHBORS : row[i] # p) =>
                    d(row[N_NEIGHBORS]) <= d(p) }

RECURSIVE NeighborArrays(_, _, _)
NeighborArrays(no_end, no_begin, k) ==
    IF k = 0 THEN {<<>>}
    ELSE { Append(a, row) : a \in NeighborArrays(no_end, no_begin, k - 1),
                            row \in NeighborRows(no_end, b_point(no_begin[k])) }

\* every array "indices" the call can return (when it does not raise)
calculate_neighbors(no_end, no_begin) ==
    NeighborArrays(no_end, no_begin, Len(no_begin))

\* The positions that can stand in column 0 of the row of begin point q
NearestPositions(no_end, q) ==
    LET pos == 0 .. (Len(no_end) - 1)
        d(p) == Dist2(e_point(no_end[p + 1]), q)
    IN  {p \in pos : \A o \in pos : d(p) <= d(o)}

RECURSIVE FirstColumns(_, _, _)
\* calculate_neighbors(lines_no_end, lines_no_begin)[:, 0]
FirstColumns(no_end, no_begin, k) ==
    IF k = 0 THEN {<<>>}
    ELSE { Append(c, p) : c \in FirstColumns(no_end, no_begin, k - 1),
                          p \in NearestPositions(no_end, b_point(no_begin[k])) }

\* a variant that keeps the positions as ids instead of looking the ids up
convert_to_id_Positions(column, no_end) ==
    [j \in 1 .. Len(column) |-> column[j] + 1]

\* column.apply(lambda x: df.index[x])
convert_to_id(column, no_end) ==
    [j \in 1 .. Len(column) |-> no_end[column[j] + 1]]

\* ----------------------------------------- generate_artificial_lines
RowBefore(r, s) ==
    \/ r.e_idx < s.e_idx
    \/ r.e_idx = s.e_idx /\ r.b_idx < s.b_idx

RECURSIVE SortRows(_)
\* sort_index() on the index (e_idx, b_idx)
SortRows(S) ==
    IF S = {} THEN <<>>
    ELSE LET m == CHOOSE r \in S : \A s \in S : s = r \/ RowBefore(r, s)
         IN  <<m>> \o SortRows(S \ {m})

generate_artificial_lines(no_begin, first_col, no_end) ==
    SortRows({ [e_idx    |-> first_col[no_begin[j]],
                b_idx    |-> no_begin[j],
                geometry |-> <<e_point(first_col[no_begin[j]]),
                               b_point(no_begin[j])>>] : j \in 1 .. Len(no_begin) })

\* ------------------------------------------------------ calculate_cos
\* coords[-2:] of the line without end, coords[:2] of the line without begin
LastSegment(id) == SubSeq(df[id], Len(df[id]) - 1, Len(df[id]))

FirstSegment(id) == SubSeq(df[id], 1, 2)

Degree(row) ==
    Abs(AngleBtw2Points(LastSegment(row.e_idx)[1], LastSegment(row.e_idx)[2])
        - AngleBtw2Points(FirstSegment(row.b_idx)[1], FirstSegment(row.b_idx)[2]))

DegreeArt(row) ==
    Abs(AngleBtw2Points(row.geometry[1], row.geometry[2])
        - AngleBtw2Points(FirstSegment(row.b_idx)[1], FirstSegment(row.b_idx)[2]))

RECURSIVE ScanGroup_LastLeast(_, _, _)
\* a variant that compares with <= and so keeps the last candidate of least degree
ScanGroup_LastLeast(group, idx, best) ==
    IF idx > Len(group) THEN best
    ELSE ScanGroup_LastLeast(group, idx + 1,
             IF Degree(group[idx]) <= best.min_degree
             THEN [min_degree     |-> Degree(group[idx]),
                   max_idx        |-> idx,
                   min_degree_art |-> DegreeArt(group[idx])]
             ELSE best)

RECURSIVE ScanGroup(_, _, _)
\* the inner loop over a group: keeps the first candidate of least degree
ScanGroup(group, idx, best) ==
    IF idx > Len(group) THEN best
    ELSE ScanGroup(group, idx + 1,
             IF Degree(group[idx]) < best.min_degree
             THEN [min_degree     |-> Degree(group[idx]),
                   max_idx        |-> idx,
                   min_degree_art |-> DegreeArt(group[idx])]
             ELSE best)

\* the row appended to filtered_lines for the group of one e_idx
GroupRow(group) ==
    LET best == ScanGroup(group, 1,
                    [min_degree |-> INF, max_idx |-> INF, min_degree_art |-> INF])
    IN  [e_idx     |-> group[best.max_idx].e_idx,
         b_idx     |-> group[best.max_idx].b_idx,
         angle     |-> best.min_degree,
         angle_art |-> best.min_degree_art,
         geometry  |-> group[best.max_idx].geometry]

\* a variant of the filter without the test on same_begin_end
Accepted_NoSelfCheck(row, angle_treshold) ==
    /\ row.angle < angle_treshold * 1000
    /\ row.angle_art < angle_treshold * 1000

\* the filter on the rows: both angles under the threshold, not a self-loop
Accepted(row, angle_treshold) ==
    /\ row.angle < angle_treshold * 1000
    /\ row.e_idx # row.b_idx
    /\ row.angle_art < angle_treshold * 1000

calculate_cos(no_begin, art_lines, no_end, angle_treshold) ==
    LET names == SetToSortedSeq({art_lines[i].e_idx : i \in DOMAIN art_lines})
        Group(name) == SelectSeq(art_lines, LAMBDA r : r.e_idx = name)
        rows == [k \in 1 .. Len(names) |-> GroupRow(Group(names[k]))]
    IN  SelectSeq(rows, LAMBDA r : Accepted(r, angle_treshold))

\* --------------------------------------------------------- the input
\* The input lines lie on a grid of slots, six to a row; line i lies in slot
\* i, and the slots of a row are numbered from east to west.  A slot's plain
\* line is a straight segment heading east that ends one unit before the
\* slot east of it, so the plain lines of a row form a chain with gaps.
Origin(i) == <<3 * (5 - ((i - 1) % 6)), 2 * ((i - 1) \div 6)>>

Variants == {"attached", "degenerate", "bent", "hook", "shared", "closing", "closed"}

At(o, dx, dy) == <<o[1] + dx, o[2] + dy>>

Shape(kind, o) ==
    CASE kind = "straight"   -> <<o, At(o, 2, 0)>>
      \* begins where the plain line of the slot to the west ends
      [] kind = "attached"   -> <<At(o, -1, 0), At(o, 2, 0)>>
      \* the last two coordinates are identical
      [] kind = "degenerate" -> <<o, At(o, 2, 0), At(o, 2, 0)>>
      \* last segment heads north-east
      [] kind = "bent"       -> <<o, At(o, 1, 0), At(o, 2, 1)>>
      \* first segment heads north-east, last segment east
      [] kind = "hook"       -> <<o, At(o, 1, 1), At(o, 1, 0), At(o, 2, 0)>>
      \* ends where the plain line of the slot to the west ends
      [] kind = "shared"     -> <<o, At(o, 0, 1), At(o, -1, 0)>>
      \* leads from the end of the plain line of the slot to the west to its begin
      [] kind = "closing"    -> <<At(o, -1, 0), At(o, -1, 1), At(o, -3, 1), At(o, -3, 0)>>
      \* a ring: ends at its own begin point
      [] kind = "closed"     -> <<o, At(o, 2, 0), At(o, 0, 1), o>>

InitWith(max_lines) ==
    \E n \in 1 .. max_lines, t \in Thresholds :
    \E V \in {W \in SUBSET (1 .. n) : Cardinality(W) <= MaxVariants} :
    \E g \in [V -> Variants] :
        LET d == [i \in 1 .. n |->
                     Shape(IF i \in V THEN g[i] ELSE "straight", Origin(i))]
        IN  /\ df = d
            /\ angle_threshold = t
            /\ lines_no_end = IF GetLinesRaises(d) THEN <<>> ELSE get_lines(d)[1]
            /\ lines_no_begin = IF GetLinesRaises(d) THEN <<>> ELSE get_lines(d)[2]
            /\ first = <<>>
            /\ indices = <<>>
            /\ artificial_lines = <<>>
            /\ filtered_lines = <<>>
            /\ result_lines = <<>>
            /\ previous_result_length = 0
            /\ rounds = 1
            /\ pc = IF GetLinesRaises(d) THEN "index_error" ELSE "neighbors"

\* main(), lines 202-211; a closed input line makes get_lines raise IndexError
\* at line 207 and main() ends there (pc = "index_error", no pool was built)
Init == InitWith(NumLines)

\* ------------------------------------------------------- the loop body
\* lines 217-218: lines_no_begin['first'] = ids of column 0 of the neighbors
Neighbors ==
    /\ pc = "neighbors"
    /\ IF NeighborsRaises(lines_no_end, lines_no_begin)
       THEN /\ pc' = "error"
            /\ UNCHANGED first
       ELSE \E column \in FirstColumns(lines_no_end, lines_no_begin, Len(lines_no_begin)) :
               /\ first' = [b \in Range(lines_no_begin) |->
                              LET j == CHOOSE k \in DOMAIN lines_no_begin : lines_no_begin[k] = b
                              IN  convert_to_id(column, lines_no_end)[j]]
               /\ pc' = "generate"
    /\ UNCHANGED <<df, angle_threshold, lines_no_end, lines_no_begin, indices,
                   artificial_lines, filtered_lines, result_lines,
                   previous_result_length, rounds>>

\* line 221
Generate ==
    /\ pc = "generate"
    /\ artificial_lines' = generate_artificial_lines(lines_no_begin, first, lines_no_end)
    /\ pc' = "filter"
    /\ UNCHANGED <<df, angle_threshold, lines_no_end, lines_no_begin, first, indices,
                   filtered_lines, result_lines, previous_result_length, rounds>>

\* line 224
Filter ==
    /\ pc = "filter"
    /\ filtered_lines' = calculate_cos(lines_no_begin, artificial_lines,
                                       lines_no_end, angle_threshold)
    /\ pc' = "update"
    /\ UNCHANGED <<df, angle_threshold, lines_no_end, lines_no_begin, first, indices,
                   artificial_lines, result_lines, previous_result_length, rounds>>

\* a variant of drop without inplace=True: the pool keeps every row
Drop_NotInPlace(pool, labels) == pool

\* DataFrame.drop(labels): the rows whose id is not among the labels
Drop(pool, labels) == SelectSeq(pool, LAMBDA id : id \notin labels)

\* a variant of the stop test that also stops on exactly 5 new connectors
StopTest_Inclusive(previous_length, length) ==
    Abs(previous_length - length) <= MIN_NEW_LINES

\* the stop test of line 234
StopTest(previous_length, length) == Abs(previous_length - length) < MIN_NEW_LINES

\* lines 227-237
Update ==
    /\ pc = "update"
    /\ result_lines' = result_lines \o filtered_lines
    /\ lines_no_begin' = Drop(lines_no_begin, {filtered_lines[i].b_idx : i \in DOMAIN filtered_lines})
    /\ lines_no_end' = Drop(lines_no_end, {filtered_lines[i].e_idx : i \in DOMAIN filtered_lines})
    /\ first' = [b \in Range(lines_no_begin') |-> first[b]]
    /\ IF StopTest(previous_result_length, Len(result_lines'))
       THEN /\ pc' = "done"
            /\ UNCHANGED <<previous_result_length, rounds>>
       ELSE /\ previous_result_length' = Len(result_lines')
            /\ rounds' = rounds + 1
            /\ pc' = "neighbors"
    /\ UNCHANGED <<df, angle_threshold, indices, artificial_lines, filtered_lines>>

\* prepare_df_for_concatenation(df, df2): the index (e_idx, b_idx) and the
\* geometry stay, the descriptive columns are filled in, and only the columns
\* of the input frame are kept (df[df2.columns]; the input is taken to have
\* the columns of Meetvakken_WGS84.shp that the function fills in), so angle
\* and angle_art are gone
prepare_df_for_concatenation(rows) ==
    [i \in 1 .. Len(rows) |->
        [e_idx     |-> rows[i].e_idx,
         b_idx     |-> rows[i].b_idx,
         naam      |-> <<"Artificial", rows[i].e_idx, rows[i].b_idx>>,
         dgl_loc   |-> "_",
         ref_loc   |-> "_",
         lengte    |-> 0,
         wegtype   |-> "_",
         meetgeg   |-> "_",
         ref_begin |-> "_",
         ref_eind  |-> "_",
         geometry  |-> rows[i].geometry]]

\* lines 240-246, after the break: result_lines is rebound to the prepared
\* frame, which is appended to a copy of the input and written to the file
Finish ==
    /\ pc = "done"
    /\ result_lines' = prepare_df_for_concatenation(result_lines)
    /\ pc' = "written"
    /\ UNCHANGED <<df, angle_threshold, lines_no_end, lines_no_begin, first, indices,
                   artificial_lines, filtered_lines, previous_result_length, rounds>>

Next == Neighbors \/ Generate \/ Filter \/ Update \/ Finish

Spec == Init /\ [][Next]_vars

\* ------------------------------------- calculate_neighbors on its own
InitNeighbors == InitWith(NeighborLines)

CallCalculateNeighbors ==
    /\ pc = "neighbors"
    /\ IF NeighborsRaises(lines_no_end, lines_no_begin)
       THEN /\ pc' = "error"
            /\ UNCHANGED indices
       ELSE /\ indices' \in calculate_neighbors(lines_no_end, lines_no_begin)
            /\ pc' = "returned"
    /\ UNCHANGED <<df, angle_threshold, lines_no_end, lines_no_begin, first,
                   artificial_lines, filtered_lines, result_lines,
                   previous_result_length, rounds>>

SpecNeighbors == InitNeighbors /\ [][CallCalculateNeighbors]_vars

\* ===================================================================
\* Properties
\* ===================================================================
IdsOf(pool) == Range(pool)

\* the connectors accepted so far, this round's included once it is filtered
AcceptedSoFar ==
    result_lines \o (IF pc = "update" THEN filtered_lines ELSE <<>>)

\* C1: no line id is the source (e_idx) of two accepted connectors and none
\* the destination (b_idx) of two; and the source of a connector that was
\* added to result_lines is in lines_no_end in no later state, its
\* destination in lines_no_begin in no later state.
C1_NoIdMatchedTwice ==
    /\ \A i, j \in DOMAIN AcceptedSoFar : i # j =>
          /\ AcceptedSoFar[i].e_idx # AcceptedSoFar[j].e_idx
          /\ AcceptedSoFar[i].b_idx # AcceptedSoFar[j].b_idx
    /\ \A i \in DOMAIN result_lines :
          /\ result_lines[i].e_idx \notin IdsOf(lines_no_end)
          /\ result_lines[i].b_idx \notin IdsOf(lines_no_begin)

\* a second round has accepted connectors on top of those of the first
C1_Witness ==
    /\ pc = "update"
    /\ rounds >= 2
    /\ Len(result_lines) >= MIN_NEW_LINES
    /\ Len(filtered_lines) > 0

PassesAngles(row) ==
    /\ Degree(row) < angle_threshold * 1000
    /\ DegreeArt(row) < angle_threshold * 1000

\* C2: no accepted connector, of this round or an earlier one, joins a line
\* to itself.
C2_NoSelfLoop ==
    /\ \A i \in DOMAIN filtered_lines : filtered_lines[i].e_idx # filtered_lines[i].b_idx
    /\ \A i \in DOMAIN result_lines : result_lines[i].e_idx # result_lines[i].b_idx

\* the candidates with source e_idx = e
GroupOf(e) == {artificial_lines[j] : j \in {k \in DOMAIN artificial_lines :
                                              artificial_lines[k].e_idx = e}}

\* the candidate of least degree of the group, the lowest b_idx among equals
ChosenOf(e) ==
    CHOOSE c \in GroupOf(e) : \A o \in GroupOf(e) :
        \/ Degree(c) < Degree(o)
        \/ Degree(c) = Degree(o) /\ c.b_idx <= o.b_idx

\* a line in both pools is its own nearest candidate, is the chosen candidate
\* of its group, passes both angle tests and has been filtered out
C2_Witness ==
    /\ pc = "update"
    /\ \E j \in DOMAIN artificial_lines :
          LET c == artificial_lines[j]
          IN  /\ c.e_idx = c.b_idx
              /\ c.e_idx \in IdsOf(lines_no_end) \cap IdsOf(lines_no_begin)
              /\ ChosenOf(c.e_idx) = c
              /\ PassesAngles(c)
              /\ \A i \in DOMAIN filtered_lines : filtered_lines[i].e_idx # c.e_idx

\* C3: after the filter of a round, each group of candidates with the same
\* source has at most one row among the accepted connectors; it has one
\* exactly when its candidate of least degree (the first of them in the order
\* of b_idx) has degree and connector degree strictly under the threshold and
\* is no self-loop, and that row is this candidate with its two angles.
C3_ChosenAcceptedIff ==
    pc = "update" =>
        /\ \A i \in DOMAIN filtered_lines : GroupOf(filtered_lines[i].e_idx) # {}
        /\ \A j \in DOMAIN artificial_lines :
              LET e == artificial_lines[j].e_idx
                  c == ChosenOf(e)
                  rows == {i \in DOMAIN filtered_lines : filtered_lines[i].e_idx = e}
              IN  /\ Cardinality(rows) <= 1
                  /\ (rows # {}) <=> (PassesAngles(c) /\ c.e_idx # c.b_idx)
                  /\ \A i \in rows :
                        /\ filtered_lines[i].b_idx = c.b_idx
                        /\ filtered_lines[i].angle = Degree(c)
                        /\ filtered_lines[i].angle_art = DegreeArt(c)
                        /\ filtered_lines[i].geometry = c.geometry

\* a group of several candidates whose accepted candidate is not its first
\* and has a smaller degree than an earlier candidate of the group
C3_Witness ==
    /\ pc = "update"
    /\ \E i \in DOMAIN filtered_lines : \E o \in GroupOf(filtered_lines[i].e_idx) :
          /\ o.b_idx < filtered_lines[i].b_idx
          /\ Degree(o) > filtered_lines[i].angle

\* C4: previous_result_length starts at 0, and the step that ends a round
\* appends this round's connectors to result_lines, removes their
\* destinations from lines_no_begin and their sources from lines_no_end, and
\* only then tests the stop rule: the loop is left exactly when
\* |len(result_lines) - previous_result_length| < 5, that is when the round
\* accepted fewer than 5 connectors; otherwise previous_result_length becomes
\* len(result_lines) and another round starts.
C4_RoundOrder ==
    /\ previous_result_length = 0
    /\ [][pc = "update" =>
            /\ result_lines' = result_lines \o filtered_lines
            /\ IdsOf(lines_no_begin') = IdsOf(lines_no_begin)
                    \ {filtered_lines[i].b_idx : i \in DOMAIN filtered_lines}
            /\ IdsOf(lines_no_end') = IdsOf(lines_no_end)
                    \ {filtered_lines[i].e_idx : i \in DOMAIN filtered_lines}
            /\ pc' \in {"done", "neighbors"}
            /\ (pc' = "done") <=>
                    (Abs(Len(result_lines') - previous_result_length) < 5)
            /\ (pc' = "done") <=> (Len(filtered_lines) < 5)
            /\ pc' = "done" => previous_result_length' = previous_result_length
            /\ pc' = "neighbors" =>
                    /\ previous_result_length' = Len(result_lines')
                    /\ rounds' = rounds + 1
      ]_vars

\* the loop has ended after a second round whose connectors are in the result
C4_Witness ==
    /\ pc = "done"
    /\ rounds >= 2
    /\ Len(filtered_lines) > 0
    /\ \A i \in DOMAIN filtered_lines :
          /\ \E k \in DOMAIN result_lines : result_lines[k] = filtered_lines[i]
          /\ filtered_lines[i].e_idx \notin IdsOf(lines_no_end)
          /\ filtered_lines[i].b_idx \notin IdsOf(lines_no_begin)

\* C5: a round that starts with an empty lines_no_end is no error: the run
\* does not end in the ValueError of calculate_neighbors.
C5_EmptyTargetPoolIsNoError ==
    lines_no_end = <<>> => pc # "error"

Min(a, b) == IF a <= b THEN a ELSE b

\* C6: calculate_neighbors returns, for any pools, one row per line of
\* lines_no_begin, each row with min(3, |lines_no_end|) positions of
\* lines_no_end, nearest end point first.
C6_NeighborsPerLine ==
    pc \in {"returned", "error"} =>
        /\ pc = "returned"
        /\ Len(indices) = Len(lines_no_begin)
        /\ \A j \in DOMAIN indices :
              LET row == indices[j]
                  d(p) == Dist2(e_point(lines_no_end[p + 1]), b_point(lines_no_begin[j]))
              IN  /\ Len(row) = Min(3, Len(lines_no_end))
                  /\ \A k \in DOMAIN row : row[k] \in 0 .. (Len(lines_no_end) - 1)
                  /\ \A k, l \in DOMAIN row : k < l => d(row[k]) <= d(row[l])

\* C7: the candidates of a round are one per line of lines_no_begin; the
\* candidate of line b is (s, b) with s a line of lines_no_end whose end point
\* no end point of lines_no_end is nearer to b's begin point than, and its
\* geometry leads from s's end point to b's begin point.  So every connector
\* accepted in the round has its source in lines_no_end and its destination
\* in lines_no_begin when it is built.
C7_OneNearestCandidatePerLine ==
    pc \in {"filter", "update"} =>
        /\ Len(artificial_lines) = Len(lines_no_begin)
        /\ \A b \in IdsOf(lines_no_begin) :
              Cardinality({j \in DOMAIN artificial_lines :
                              artificial_lines[j].b_idx = b}) = 1
        /\ \A j \in DOMAIN artificial_lines :
              LET c == artificial_lines[j]
              IN  /\ c.e_idx \in IdsOf(lines_no_end)
                  /\ c.b_idx \in IdsOf(lines_no_begin)
                  /\ \A s \in IdsOf(lines_no_end) :
                        Dist2(e_point(c.e_idx), b_point(c.b_idx))
                            <= Dist2(e_point(s), b_point(c.b_idx))
                  /\ c.geometry = <<e_point(c.e_idx), b_point(c.b_idx)>>
        /\ pc = "update" => \A i \in DOMAIN filtered_lines :
              /\ filtered_lines[i].e_idx \in IdsOf(lines_no_end)
              /\ filtered_lines[i].b_idx \in IdsOf(lines_no_begin)

\* the candidates of a second round, built on pools that differ, one of them
\* for a line whose nearest end point is not its own
C7_Witness ==
    /\ pc = "filter"
    /\ rounds >= 2
    /\ lines_no_end # lines_no_begin
    /\ Len(artificial_lines) >= 2
    /\ \E j \in DOMAIN artificial_lines :
          artificial_lines[j].e_idx # artificial_lines[j].b_idx

\* C8: between rounds, a line is in lines_no_end exactly when no other
\* active line (input line or accepted connector) begins at its end point,
\* and in lines_no_begin exactly when no other active line ends at its begin
\* point.
C8_PoolInvariant ==
    pc \in {"neighbors", "done", "written"} =>
        \A id \in DOMAIN df :
            LET begins == {b_point(o) : o \in DOMAIN df \ {id}}
                            \cup {result_lines[i].geometry[1] : i \in DOMAIN result_lines}
                ends   == {e_point(o) : o \in DOMAIN df \ {id}}
                            \cup {result_lines[i].geometry[2] : i \in DOMAIN result_lines}
            IN  /\ id \in IdsOf(lines_no_end) <=> e_point(id) \notin begins
                /\ id \in IdsOf(lines_no_begin) <=> b_point(id) \notin ends

\* a candidate one of whose three bearings is taken of two identical points
Degenerate(row) ==
    \/ LastSegment(row.e_idx)[1] = LastSegment(row.e_idx)[2]
    \/ FirstSegment(row.b_idx)[1] = FirstSegment(row.b_idx)[2]
    \/ row.geometry[1] = row.geometry[2]

\* C9: a candidate with a zero-length last segment of the source, first
\* segment of the destination or connector is never accepted.
C9_DegenerateNeverAccepted ==
    /\ \A i \in DOMAIN filtered_lines : ~Degenerate(filtered_lines[i])
    /\ \A i \in DOMAIN result_lines : ~Degenerate(result_lines[i])

\* C10: the loop ends in DONE, never in an error, after at most
\* floor(min(|initial lines_no_end|, |initial lines_no_begin|) / 5) + 1
\* rounds, and between rounds len(result_lines) is the number of lines each
\* pool has lost.
C10_TerminatesInDone ==
    pc # "index_error" =>
        LET no_end_0 == Len(get_lines(df)[1])
            no_begin_0 == Len(get_lines(df)[2])
        IN  /\ pc # "error"
            /\ rounds <= (Min(no_end_0, no_begin_0) \div 5) + 1
            /\ pc \in {"neighbors", "done", "written"} =>
                  /\ Len(result_lines) = no_end_0 - Len(lines_no_end)
                  /\ Len(result_lines) = no_begin_0 - Len(lines_no_begin)

====
